---- MODULE Spec2Model ----
(***************************************************************************)
(* network_rag/__init__.py: the package initializer of Network RAG.        *)
(*                                                                         *)
(* The module body is three bindings executed in order by the interpreter: *)
(* the docstring (bound to __doc__), __version__ = "0.0.1" and             *)
(* __all__ = ["__version__"].  The model is the interpreter state that     *)
(* these bindings act on: the module namespace (name -> object reference), *)
(* the object heap (str objects are immutable, list objects are mutable    *)
(* and shared by reference), the position in the module body, the pending  *)
(* exception, and the process-wide state outside the module (os.environ,   *)
(* stdout).  Around the load are the steps Python gives the module's       *)
(* users: importlib.reload, `from network_rag import *`, a rebinding in    *)
(* the importer's own namespace, and, for an importer holding the module   *)
(* object, in-place list operations and attribute assignment.              *)
(*                                                                         *)
(* A Python str is modelled as the sequence of its text fragments.  The    *)
(* literals that are inspected (the version, the names) are split into     *)
(* single characters; the docstring is split into lines, its one non-ASCII *)
(* character (the em dash) written as the fragment "U+2014".               *)
(***************************************************************************)
EXTENDS Integers, Sequences, FiniteSets, TLC

VARIABLES
    pc,       \* number of statements of the module body executed so far
    err,      \* pending exception of the load: "none" or its type name
    ns,       \* module namespace: name -> heap address
    heap,     \* object heap: address -> object
    loads,    \* how many times the module body has been started
    cns,      \* an importer's own namespace: name -> heap address
    cerr,     \* exception raised by the importer's last step, or "none"
    environ,  \* process-wide environment the interpreter was started with
    stdout    \* what the process has written to standard output

vars == <<pc, err, ns, heap, loads, cns, cerr, environ, stdout>>

\* Everything outside the module's own namespace and the importer's.
env == <<environ, stdout>>

----------------------------------------------------------------------------
(* Bounds of the exploration *)

\* importlib.reload may be called this many times after the first import
MaxReloads == 2
\* in-place growth of a list object stops at this length
MaxListLen == 2
\* an importer writes at most this many lines to stdout
MaxOut == 1

\* the settings of the environment the interpreter may be started under
Environs == {"", "NETWORK_RAG_DEBUG=1", "LANG=C"}

----------------------------------------------------------------------------
(* The literals of the source *)

\* line 1-10: the module docstring
DocText ==
    << "\n",
       "Network RAG - Network-based Retrieval-Augmented Generation\n",
       "\n",
       "Precise retrieval with broad context.\n",
       "\n",
       "Open-source Python framework that combines vector search with network relationships\n",
       "for precise retrieval with broad context. Define your graph explicitly in code,\n",
       "deploy anywhere with your current database and tech stack, and query with NXQL",
       "U+2014", "\n",
       "a composable query language built for hybrid retrieval.\n" >>

\* (variant) the version written with two components only: "0.1"
VersionTextShort == << "0", ".", "1" >>

\* line 12: the literal "0.0.1"
VersionText == << "0", ".", "0", ".", "1" >>

\* the identifiers the module body binds, and the literal "__version__" of line 15
NameDoc     == << "_", "_", "d", "o", "c", "_", "_" >>
NameVersion == << "_", "_", "v", "e", "r", "s", "i", "o", "n", "_", "_" >>
NameAll     == << "_", "_", "a", "l", "l", "_", "_" >>

\* a string of the importer's own, used by the importer's steps
ClientText == << "x" >>

StrObj(text)   == [type |-> "str",  text  |-> text]
ListObj(items) == [type |-> "list", items |-> items]
Freed          == [type |-> "freed"]

\* The constants of the compiled module body (co_consts), in order of first
\* use, followed by the importer's own string.  They are on the heap before
\* the body runs, at the addresses that are their indices here.
Consts == << StrObj(DocText), StrObj(VersionText), StrObj(NameVersion),
             StrObj(ClientText) >>

ConstDoc         == 1
ConstVersion     == 2
ConstNameVersion == 3
\* the importer's string comes after the module's constants
ConstClient      == Len(Consts)

\* Expressions of the module body
Const(k)   == [kind |-> "Const", const |-> k]
Name(id)   == [kind |-> "Name",  id |-> id]
List(elts) == [kind |-> "List",  elts |-> elts]
Assign(target, value) == [target |-> target, value |-> value]

\* the identifier `version`, without the double underscores
BareVersion == << "v", "e", "r", "s", "i", "o", "n" >>

\* (variant) line 12 binds `version` instead of `__version__`
ProgramVersionRenamed ==
    << Assign(NameDoc,     Const(ConstDoc)),
       Assign(BareVersion, Const(ConstVersion)),
       Assign(NameAll,     List(<< Const(ConstNameVersion) >>)) >>

\* (variant) line 15 also exports a name the module does not define yet:
\* __all__ = ["__version__", "x"]
ProgramExportsUndefined ==
    << Assign(NameDoc,     Const(ConstDoc)),
       Assign(NameVersion, Const(ConstVersion)),
       Assign(NameAll,     List(<< Const(ConstNameVersion), Const(ConstClient) >>)) >>

\* (variant) line 12 binds a list: __version__ = ["0.0.1"]
ProgramVersionList ==
    << Assign(NameDoc,     Const(ConstDoc)),
       Assign(NameVersion, List(<< Const(ConstVersion) >>)),
       Assign(NameAll,     List(<< Const(ConstNameVersion) >>)) >>

\* (variant) line 15 without the quotes and underscores: __all__ = [version]
ProgramTypo ==
    << Assign(NameDoc,     Const(ConstDoc)),
       Assign(NameVersion, Const(ConstVersion)),
       Assign(NameAll,     List(<< Name(BareVersion) >>)) >>

\* The module body, statement by statement.
Program ==
    << Assign(NameDoc,     Const(ConstDoc)),                      \* lines 1-10
       Assign(NameVersion, Const(ConstVersion)),                  \* line 12
       Assign(NameAll,     List(<< Const(ConstNameVersion) >>)) >> \* line 15

Loaded == pc = Len(Program) /\ err = "none"

----------------------------------------------------------------------------
(* Expression evaluation *)

\* An atom (constant or name) evaluates to an address, or 0 for NameError.
EvalAtom(e, n) ==
    IF e.kind = "Const" THEN e.const
    ELSE IF e.id \in DOMAIN n THEN n[e.id] ELSE 0

\* [ok, addr, heap]: the value's address and the heap after evaluation.  A
\* list display allocates a new list object holding its elements' addresses.
Eval(e, n, h) ==
    IF e.kind = "List"
    THEN LET items == [i \in 1..Len(e.elts) |-> EvalAtom(e.elts[i], n)]
         IN IF \E i \in 1..Len(items) : items[i] = 0
            THEN [ok |-> FALSE, addr |-> 0, heap |-> h]
            ELSE [ok |-> TRUE, addr |-> Len(h) + 1,
                  heap |-> Append(h, ListObj(items))]
    ELSE LET a == EvalAtom(e, n)
         IN [ok |-> a # 0, addr |-> a, heap |-> h]

\* (variant) a binding that keeps an existing one, as dict.setdefault does
BindIfAbsent(n, id, a) ==
    [k \in DOMAIN n \cup {id} |-> IF k \in DOMAIN n THEN n[k] ELSE a]

\* name -> address with one binding added or replaced
Bind(n, id, a) == [k \in DOMAIN n \cup {id} |-> IF k = id THEN a ELSE n[k]]

\* Addresses referred to from a namespace
Refs(n) == {n[k] : k \in DOMAIN n}

\* Reference counting: an allocated list that neither namespace refers to
\* any more is freed at once; the compiled constants stay alive.
Collect(h, n, c) ==
    [a \in 1..Len(h) |->
        IF a > Len(Consts) /\ a \notin Refs(n) \cup Refs(c) THEN Freed ELSE h[a]]

----------------------------------------------------------------------------
(* The load *)

Init ==
    /\ pc = 0
    /\ err = "none"
    /\ ns = << >>
    /\ heap = Consts
    /\ loads = 1
    /\ cns = << >>
    /\ cerr = "none"
    /\ environ \in Environs
    /\ stdout = << >>

\* (variant) a module body that reports each binding on stdout
ExecStmtLogging ==
    /\ pc < Len(Program)
    /\ err = "none"
    /\ LET s == Program[pc + 1]
           r == Eval(s.value, ns, heap)
       IN IF r.ok
          THEN /\ ns' = Bind(ns, s.target, r.addr)
               /\ heap' = Collect(r.heap, ns', cns)
               /\ pc' = pc + 1
               /\ err' = err
               /\ stdout' = Append(stdout, s.target)
          ELSE /\ err' = "NameError"
               /\ UNCHANGED <<ns, heap, pc, stdout>>
    /\ UNCHANGED <<loads, cns, cerr, environ>>

\* Execute the next statement of the module body: evaluate the right-hand
\* side, bind the target.  A failing evaluation leaves the exception pending
\* and the body is abandoned.
ExecStmt ==
    /\ pc < Len(Program)
    /\ err = "none"
    /\ LET s == Program[pc + 1]
           r == Eval(s.value, ns, heap)
       IN IF r.ok
          THEN /\ ns' = Bind(ns, s.target, r.addr)
               /\ heap' = Collect(r.heap, ns', cns)
               /\ pc' = pc + 1
               /\ err' = err
          ELSE /\ err' = "NameError"
               /\ UNCHANGED <<ns, heap, pc>>
    /\ UNCHANGED <<loads, cns, cerr, environ, stdout>>

\* importlib.reload(network_rag): the body runs again in the same namespace.
Reload ==
    /\ Loaded
    /\ loads <= MaxReloads
    /\ loads' = loads + 1
    /\ pc' = 0
    /\ UNCHANGED <<err, ns, heap, cns, cerr, environ, stdout>>

----------------------------------------------------------------------------
(* The public surface: what `from network_rag import *` hands to an importer *)

\* The names the export list announces.  Iterating a list yields its items
\* (str objects, read as names); iterating a str yields its characters.
ExportNames(h, n) ==
    LET o == h[n[NameAll]]
    IN IF o.type = "list"
       THEN [i \in 1..Len(o.items) |-> h[o.items[i]].text]
       ELSE [i \in 1..Len(o.text) |-> << o.text[i] >>]

\* How many leading names of the export list resolve in the module namespace
RECURSIVE Resolvable(_, _)
Resolvable(names, n) ==
    IF names = << >> \/ Head(names) \notin DOMAIN n THEN 0
    ELSE 1 + Resolvable(Tail(names), n)

\* `from network_rag import *`: each exported name is looked up in the module
\* and bound, to the same object, in the importer's namespace; the first name
\* the module does not define raises AttributeError.
StarImport ==
    /\ Loaded
    /\ LET names == ExportNames(heap, ns)
           k     == Resolvable(names, ns)
           got   == {names[i] : i \in 1..k}
       IN /\ cns' = [id \in DOMAIN cns \cup got |->
                        IF id \in got THEN ns[id] ELSE cns[id]]
          /\ cerr' = IF k = Len(names) THEN "none" ELSE "AttributeError"
    /\ heap' = Collect(heap, ns, cns')
    /\ UNCHANGED <<pc, err, ns, loads, environ, stdout>>

\* (variant) imported names shared with the module: rebinding one writes
\* through to the module namespace
ClientRebindModule(id) ==
    /\ Loaded
    /\ id \in DOMAIN cns
    /\ ns' = Bind(ns, id, ConstClient)
    /\ cerr' = "none"
    /\ heap' = Collect(heap, ns', cns)
    /\ UNCHANGED <<pc, err, cns, loads, environ, stdout>>

\* The importer rebinds an imported name in its own namespace (`name = "x"`).
ClientRebind(id) ==
    /\ Loaded
    /\ id \in DOMAIN cns
    /\ cns' = Bind(cns, id, ConstClient)
    /\ cerr' = "none"
    /\ heap' = Collect(heap, ns, cns')
    /\ UNCHANGED <<pc, err, ns, loads, environ, stdout>>

\* obj.append("x") on the object at address a: a list grows in place, any
\* other type has no such method and the call raises AttributeError.
AppendInPlace(a) ==
    IF heap[a].type = "list"
    THEN /\ Len(heap[a].items) < MaxListLen
         /\ heap' = [heap EXCEPT ![a].items = Append(@, ConstClient)]
         /\ cerr' = "none"
    ELSE /\ heap' = heap
         /\ cerr' = "AttributeError"

\* obj.pop() on the object at address a, likewise.
PopInPlace(a) ==
    IF heap[a].type = "list"
    THEN /\ heap' = [heap EXCEPT
                        ![a].items = SubSeq(@, 1, Len(@) - 1)]
         /\ cerr' = IF heap[a].items = << >> THEN "IndexError" ELSE "none"
    ELSE /\ heap' = heap
         /\ cerr' = "AttributeError"

\* The importer calls a mutating method on an object it imported.
ClientMutate(id) ==
    /\ Loaded
    /\ id \in DOMAIN cns
    /\ \/ AppendInPlace(cns[id])
       \/ PopInPlace(cns[id])
    /\ UNCHANGED <<pc, err, ns, loads, cns, environ, stdout>>

\* The importer prints what it imported: print(__version__).
ClientPrint ==
    /\ Loaded
    /\ NameVersion \in DOMAIN cns
    /\ Len(stdout) < MaxOut
    /\ stdout' = Append(stdout, heap[cns[NameVersion]].text)
    /\ UNCHANGED <<pc, err, ns, heap, loads, cns, cerr, environ>>

----------------------------------------------------------------------------
(* An importer holding the module object (`import network_rag`) *)

\* network_rag.<id>.append("x") / .pop(): in place, on the shared object.
ModuleMutate(id) ==
    /\ Loaded
    /\ id \in DOMAIN ns
    /\ \/ AppendInPlace(ns[id])
       \/ PopInPlace(ns[id])
    /\ UNCHANGED <<pc, err, ns, loads, cns, environ, stdout>>

\* network_rag.<id> = "x": the module attribute is rebound.
SetAttr(id) ==
    /\ Loaded
    /\ id \in DOMAIN ns
    /\ ns[id] # ConstClient
    /\ ns' = Bind(ns, id, ConstClient)
    /\ cerr' = "none"
    /\ heap' = Collect(heap, ns', cns)
    /\ UNCHANGED <<pc, err, loads, cns, environ, stdout>>

----------------------------------------------------------------------------
(* Specifications *)

ModuleNames == {NameDoc, NameVersion, NameAll}

\* The module and the importers that use its public surface.
NextSurface ==
    \/ ExecStmt
    \/ Reload
    \/ StarImport
    \/ \E id \in ModuleNames : ClientRebind(id)
    \/ \E id \in ModuleNames : ClientMutate(id)
    \/ ClientPrint

\* In addition, importers that reach into the module object.
Next ==
    \/ NextSurface
    \/ \E id \in ModuleNames : ModuleMutate(id)
    \/ \E id \in ModuleNames : SetAttr(id)

SpecSurface == Init /\ [][NextSurface]_vars

Spec == Init /\ [][Next]_vars

\* The interpreter runs a module body to its end without yielding: a load
\* that has started keeps executing statements.
FairSpec == Spec /\ WF_vars(ExecStmt)

----------------------------------------------------------------------------
(* Reading the namespace: values behind the references *)

\* The object at address a with the references of a list followed.
Value(h, a) ==
    IF h[a].type = "list"
    THEN [type |-> "list", items |-> [i \in 1..Len(h[a].items) |-> h[h[a].items[i]]]]
    ELSE h[a]

\* A namespace by value.
Snapshot(n, h) == [id \in DOMAIN n |-> Value(h, n[id])]

\* The first load or a reload has run to its end at least once.
LoadedOnce == loads > 1 \/ Loaded

\* This step executes the last statement of the module body.
LoadCompletes == pc # Len(Program) /\ pc' = Len(Program)

\* This step belongs to the load sequence: a statement is executed or fails.
LoadStep == pc' = pc + 1 \/ err' # err

\* text split at each occurrence of sep, as str.split does
RECURSIVE Split(_, _)
Split(text, sep) ==
    IF \A i \in 1..Len(text) : text[i] # sep THEN << text >>
    ELSE LET i == CHOOSE j \in 1..Len(text) :
                      text[j] = sep /\ \A k \in 1..(j - 1) : text[k] # sep
         IN << SubSeq(text, 1, i - 1) >> \o Split(SubSeq(text, i + 1, Len(text)), sep)

Digits == {"0", "1", "2", "3", "4", "5", "6", "7", "8", "9"}

\* MAJOR.MINOR.PATCH: three dot-separated non-empty runs of decimal digits
IsSemVer(text) ==
    LET parts == Split(text, ".")
    IN /\ Len(text) > 0
       /\ Len(parts) = 3
       /\ \A i \in 1..Len(parts) :
             /\ Len(parts[i]) > 0
             /\ \A j \in 1..Len(parts[i]) : parts[i][j] \in Digits

----------------------------------------------------------------------------
(* Claims *)

\* C1: after the module is loaded, its export list __all__ holds exactly one
\* name, "__version__", and every name in the export list is bound in the
\* module namespace.
C1_ExportsExactlyVersion ==
    Loaded =>
        /\ NameAll \in DOMAIN ns
        /\ heap[ns[NameAll]].type = "list"
        /\ ExportNames(heap, ns) = << NameVersion >>
        /\ \A i \in 1..Len(ExportNames(heap, ns)) :
              ExportNames(heap, ns)[i] \in DOMAIN ns

\* a loaded module whose one export has been star-imported without error
C1_Witness ==
    /\ Loaded
    /\ DOMAIN cns = {NameVersion}
    /\ cerr = "none"
    /\ cns[NameVersion] = ns[NameVersion]

\* C2: __version__ is a non-empty str of the form MAJOR.MINOR.PATCH: exactly
\* three dot-separated components, each a non-empty run of decimal digits.
C2_VersionIsSemVer ==
    Loaded =>
        /\ NameVersion \in DOMAIN ns
        /\ heap[ns[NameVersion]].type = "str"
        /\ IsSemVer(heap[ns[NameVersion]].text)

\* a loaded module whose version splits into the components 0, 0 and 1
C2_Witness ==
    /\ Loaded
    /\ NameVersion \in DOMAIN ns
    /\ Split(heap[ns[NameVersion]].text, ".") = << <<"0">>, <<"0">>, <<"1">> >>

\* C3: a step of the load sequence changes nothing outside the module's own
\* namespace: the environment and stdout, the importer's namespace, the
\* compiled constants and every object the importer holds are unchanged, and
\* the only names the module namespace gains are __doc__, __version__ and
\* __all__.
C3_LoadHasNoSideEffects ==
    [][LoadStep =>
          /\ env' = env
          /\ cns' = cns
          /\ cerr' = cerr
          /\ DOMAIN ns' \subseteq ModuleNames
          /\ \A a \in DOMAIN heap :
                a \in Refs(cns) \cup (1..Len(Consts)) => heap'[a] = heap[a]]_vars

\* a reload has run to its end in a process that had written to stdout and
\* was started under a non-empty environment
C3_Witness ==
    /\ Loaded
    /\ loads > 1
    /\ stdout # << >>
    /\ environ # ""
    /\ DOMAIN ns = ModuleNames

C5_ExportListEmpty ==
    Loaded => Len(ExportNames(heap, ns)) = 0

\* C5 as amended: after load the export list is empty aside from the version
\* identifier: it has one element, and no element other than "__version__".
C5_ExportListEmptyAsideFromVersion ==
    Loaded =>
        /\ Len(ExportNames(heap, ns)) = 1
        /\ {i \in 1..Len(ExportNames(heap, ns)) :
               ExportNames(heap, ns)[i] # NameVersion} = {}

\* a loaded module whose export list has its one element
C5_Witness ==
    /\ Loaded
    /\ Len(heap[ns[NameAll]].items) = 1

\* C6 as stated: no object bound in the module namespace is ever changed in
\* place (an object that stays allocated keeps its contents).
C6_NoObjectChangesInPlace ==
    [][\A id \in DOMAIN ns :
          heap'[ns[id]] = heap[ns[id]] \/ heap'[ns[id]] = Freed]_vars

\* C6 as amended: the objects bound to __doc__ and __version__ are never
\* changed in place by any importer (they are strs, which have no mutating
\* method); the list bound to __all__ is the one object that can be.
C6_StrBindingsNeverChangeInPlace ==
    [][\A id \in DOMAIN ns \cap {NameDoc, NameVersion} :
          heap'[ns[id]] = heap[ns[id]]]_vars

\* an importer's in-place call on a str has failed, and the shared list bound
\* to __all__ no longer has the contents the load gave it
C6_Witness ==
    /\ Loaded
    /\ cerr = "AttributeError"
    /\ heap[ns[NameAll]].type = "list"
    /\ heap[ns[NameAll]].items # << ConstNameVersion >>
    /\ heap[ns[NameVersion]] = StrObj(VersionText)

\* C7: loading cannot fail and always terminates: no exception is ever
\* pending, and every load that has started reaches the loaded state.
C7_LoadTerminatesWithoutError ==
    /\ [](err = "none")
    /\ (pc < Len(Program)) ~> Loaded

\* a reload that ran to its end with all three names bound
C7_Witness ==
    /\ Loaded
    /\ loads > 1
    /\ ModuleNames \subseteq DOMAIN ns

\* The namespace every load ends in.
ExpectedNamespace ==
    [id \in ModuleNames |->
        IF id = NameDoc THEN StrObj(DocText)
        ELSE IF id = NameVersion THEN StrObj(VersionText)
        ELSE [type |-> "list", items |-> << StrObj(NameVersion) >>]]

\* C8: every load, the first one under any environment and a reload after
\* any prior state, ends in the same namespace: __version__ is "0.0.1" and
\* __all__ is the one-element list ["__version__"].
C8_LoadDeterministic ==
    [][LoadCompletes => Snapshot(ns', heap') = ExpectedNamespace]_vars

\* a reload has ended in the expected namespace although the importer had
\* rebound a module attribute and changed the export list before it
C8_Witness ==
    /\ Loaded
    /\ loads > 1
    /\ environ # ""
    /\ Snapshot(ns, heap) = ExpectedNamespace
    /\ \E a \in DOMAIN heap : heap[a] = Freed

====
